---- MODULE Spec2Model ----
(***************************************************************************)
(* Validation and ranking pipeline for defensive statistics:               *)
(* DefensiveStatsValidator (src/src/validators.py) and                     *)
(* DefensiveStatsTransformer (src/src/transformers.py).                    *)
(*                                                                         *)
(* Python values are tagged records.  A scalar is [k, i, s]: k is the      *)
(* Python type ("int", "float", "str", "none"), i the numeric value and s  *)
(* the characters of a string, one per element, so that strip(), len()     *)
(* and the regular expression of the player-name check are computed.       *)
(* A float is modelled by the integer it equals (17.0); bool, which        *)
(* isinstance(_, int) also admits, is not modelled.  An object of a list   *)
(* of records is [k, d]: a dict (k = "dict", d its keys and values), None  *)
(* or a list standing for a record that is not a mapping.                  *)
(***************************************************************************)
EXTENDS Integers, Sequences, FiniteSets, TLC

VARIABLES
    valid_teams,   \* self.valid_teams of the DefensiveStatsValidator instance
    op,            \* the method called last ("init" after construction)
    arg,           \* the argument of that call, as it is after the call
    res,           \* what the call returned, or Raised
    log,           \* the levels of the log records the call emitted
    done           \* the calls made so far, oldest first: [op, arg, res] each

vars == <<valid_teams, op, arg, res, log, done>>

----------------------------------------------------------------------------
(* Python values *)

PyInt(n) == [k |-> "int", i |-> n, s |-> <<>>]
PyFloat(n) == [k |-> "float", i |-> n, s |-> <<>>]
PyStr(c) == [k |-> "str", i |-> 0, s |-> c]
PyNone == [k |-> "none", i |-> 0, s |-> <<>>]
\* Not a Python value: marks a key that the dict under construction lacks.
Absent == [k |-> "absent", i |-> 0, s |-> <<>>]

EmptyDict == [key \in {} |-> PyNone]
PyDict(f) == [k |-> "dict", d |-> [key \in {x \in DOMAIN f : f[x] # Absent} |-> f[key]]]
\* A list with the elements of the sequence v.
PyList(v) == [k |-> "list", d |-> EmptyDict, v |-> v]
\* None and a list where a mapping is expected.
NoneObj == [k |-> "none", d |-> EmptyDict]
ListObj == PyList(<<>>)
\* {}
EmptyObj == [k |-> "dict", d |-> EmptyDict]

\* isinstance(v, int)
IsInt(v) == v.k = "int"

\* The outcome of a call that raised instead of returning.
Raised == [k |-> "raised", d |-> EmptyDict]

Whitespace == {" ", "\t"}
Letters ==
    {"a","b","c","d","e","f","g","h","i","j","k","l","m","n","o","p","q","r","s","t","u",
     "v","w","x","y","z","A","B","C","D","E","F","G","H","I","J","K","L","M","N","O","P",
     "Q","R","S","T","U","V","W","X","Y","Z"}

RECURSIVE lstrip(_)
lstrip(c) == IF c # <<>> /\ Head(c) \in Whitespace THEN lstrip(Tail(c)) ELSE c

RECURSIVE rstrip(_)
rstrip(c) ==
    IF c # <<>> /\ c[Len(c)] \in Whitespace THEN rstrip(SubSeq(c, 1, Len(c) - 1)) ELSE c

\* str.strip()
strip(c) == rstrip(lstrip(c))

\* The Python string whose characters are c.
RECURSIVE ToStr(_)
ToStr(c) == IF c = <<>> THEN "" ELSE Head(c) \o ToStr(Tail(c))

\* re.search(r'[a-zA-Z]', c)
HasLetter(c) == \E n \in 1..Len(c) : c[n] \in Letters

----------------------------------------------------------------------------
(* DefensiveStatsValidator *)

\* self.valid_teams as __init__ builds it.
ValidTeams ==
    {"ARI", "ATL", "BAL", "BUF", "CAR", "CHI", "CIN", "CLE", "DAL", "DEN",
     "DET", "GB", "HOU", "IND", "JAX", "KC", "LV", "LAC", "LAR", "MIA",
     "MIN", "NE", "NO", "NYG", "NYJ", "PHI", "PIT", "SF", "SEA", "TB",
     "TEN", "WAS", "Arizona", "Atlanta", "Baltimore", "Buffalo", "Carolina",
     "Chicago", "Cincinnati", "Cleveland", "Dallas", "Denver", "Detroit",
     "Green Bay", "Houston", "Indianapolis", "Jacksonville", "Kansas City",
     "Las Vegas", "Los Angeles Chargers", "Los Angeles Rams", "Miami",
     "Minnesota", "New England", "New Orleans", "New York Giants",
     "New York Jets", "Philadelphia", "Pittsburgh", "San Francisco",
     "Seattle", "Tampa Bay", "Tennessee", "Washington"}

\* valid_teams of a validator that adds a team it has not seen to the set.
valid_teams_after_call_learning(teams) == teams \cup {"XX"}

\* self.valid_teams after a call of a method of the validator: no method
\* assigns an attribute of self or changes the set.
valid_teams_after_call(teams) == teams

\* What a validate_* method returns, with the level it logged at.
Passed == [ret |-> TRUE, log |-> {}]
Warned == [ret |-> FALSE, log |-> {"warning"}]
Caught == [ret |-> FALSE, log |-> {"error"}]
\* The position-specific checks return False without logging.
Failed == [ret |-> FALSE, log |-> {}]

\* field not in data or data[field] is None
Missing(d, field) == field \notin DOMAIN d \/ d[field] = PyNone

\* 'f' in data and (not isinstance(data['f'], int) or data['f'] < lo or data['f'] > hi)
BadOptional(d, f, lo, hi) == f \in DOMAIN d /\ (~IsInt(d[f]) \/ d[f].i < lo \/ d[f].i > hi)

\* not isinstance(v, int) or v < lo or v > hi
BadInt(v, lo, hi) == ~IsInt(v) \/ v.i < lo \/ v.i > hi

\* validate_team_stats with the regular season's 17 games as the upper limit
\* of games_played instead of 21.
validate_team_stats_games17(team_data) ==
    IF team_data.k = "none" THEN Caught
    ELSE IF team_data.k = "list" THEN Warned
    ELSE LET d == team_data.d IN
    IF \E field \in {"team", "games_played", "points_allowed", "year"} : Missing(d, field)
    THEN Warned
    ELSE IF d["team"].k # "str" THEN Caught
    ELSE IF Len(strip(d["team"].s)) < 2 THEN Warned
    ELSE IF BadInt(d["games_played"], 1, 17) THEN Warned
    ELSE IF BadInt(d["points_allowed"], 0, 1000) THEN Warned
    ELSE IF BadOptional(d, "total_yards_allowed", 0, 10000) THEN Warned
    ELSE IF BadOptional(d, "sacks", 0, 100) THEN Warned
    ELSE IF BadOptional(d, "turnovers_forced", 0, 60) THEN Warned
    ELSE IF BadInt(d["year"], 2000, 2030) THEN Warned
    ELSE Passed

validate_team_stats(team_data) ==
    IF team_data.k = "none" THEN Caught          \* 'team' not in None: TypeError
    ELSE IF team_data.k = "list" THEN Warned     \* 'team' not in [...]: True
    ELSE LET d == team_data.d IN
    IF \E field \in {"team", "games_played", "points_allowed", "year"} : Missing(d, field)
    THEN Warned
    ELSE IF d["team"].k # "str" THEN Caught      \* no .strip(): AttributeError
    ELSE IF Len(strip(d["team"].s)) < 2 THEN Warned
    ELSE IF BadInt(d["games_played"], 1, 21) THEN Warned
    ELSE IF BadInt(d["points_allowed"], 0, 1000) THEN Warned
    ELSE IF BadOptional(d, "total_yards_allowed", 0, 10000) THEN Warned
    ELSE IF BadOptional(d, "sacks", 0, 100) THEN Warned
    ELSE IF BadOptional(d, "turnovers_forced", 0, 60) THEN Warned
    ELSE IF BadInt(d["year"], 2000, 2030) THEN Warned
    ELSE Passed

\* valid_positions with the linebacker added.
valid_positions_with_LB ==
    {PyStr(<<"Q","B">>), PyStr(<<"R","B">>), PyStr(<<"W","R">>), PyStr(<<"T","E">>),
     PyStr(<<"K">>), PyStr(<<"D","E","F">>), PyStr(<<"L","B">>)}

\* valid_positions of validate_player_stats
valid_positions ==
    {PyStr(<<"Q","B">>), PyStr(<<"R","B">>), PyStr(<<"W","R">>), PyStr(<<"T","E">>),
     PyStr(<<"K">>), PyStr(<<"D","E","F">>)}

_validate_qb_stats(qb_data) ==
    LET attempts == IF "attempts" \in DOMAIN qb_data THEN qb_data["attempts"] ELSE PyInt(0) IN
    IF BadOptional(qb_data, "attempts", 0, 1000) THEN FALSE
    ELSE IF "completions" \in DOMAIN qb_data
            /\ (~IsInt(qb_data["completions"]) \/ qb_data["completions"].i < 0)
    THEN FALSE
    ELSE IF "completions" \in DOMAIN qb_data
            /\ attempts.i > 0 /\ qb_data["completions"].i > attempts.i
    THEN FALSE
    ELSE IF BadOptional(qb_data, "passing_yards", -100, 10000) THEN FALSE
    ELSE IF BadOptional(qb_data, "touchdowns", 0, 100) THEN FALSE
    ELSE IF BadOptional(qb_data, "interceptions", 0, 50) THEN FALSE
    ELSE TRUE

\* _validate_rb_stats without the check of rushing_tds.
_validate_rb_stats_no_tds(rb_data) ==
    IF BadOptional(rb_data, "carries", 0, 500) THEN FALSE
    ELSE IF BadOptional(rb_data, "rushing_yards", -100, 3000) THEN FALSE
    ELSE TRUE

_validate_rb_stats(rb_data) ==
    IF BadOptional(rb_data, "carries", 0, 500) THEN FALSE
    ELSE IF BadOptional(rb_data, "rushing_yards", -100, 3000) THEN FALSE
    ELSE IF BadOptional(rb_data, "rushing_tds", 0, 50) THEN FALSE
    ELSE TRUE

_validate_receiver_stats(receiver_data) ==
    IF BadOptional(receiver_data, "receptions", 0, 200) THEN FALSE
    ELSE IF BadOptional(receiver_data, "receiving_yards", -50, 3000) THEN FALSE
    ELSE IF BadOptional(receiver_data, "receiving_tds", 0, 50) THEN FALSE
    ELSE TRUE

validate_player_stats(player_data) ==
    IF player_data.k = "none" THEN Caught        \* 'player_name' not in None: TypeError
    ELSE IF player_data.k = "list" THEN Warned   \* 'player_name' not in [...]: True
    ELSE LET d == player_data.d IN
    IF \E field \in {"player_name", "team", "position", "year"} : Missing(d, field)
    THEN Warned
    ELSE IF d["player_name"].k # "str" THEN Caught   \* no .strip(): AttributeError
    ELSE IF Len(strip(d["player_name"].s)) < 2 THEN Warned
    ELSE IF ~HasLetter(strip(d["player_name"].s)) THEN Warned
    ELSE IF d["position"] \notin valid_positions THEN Warned
    ELSE IF BadOptional(d, "games_played", 0, 21) THEN Warned
    ELSE IF d["position"] = PyStr(<<"Q","B">>)
         THEN (IF _validate_qb_stats(d) THEN Passed ELSE Failed)
    ELSE IF d["position"] = PyStr(<<"R","B">>)
         THEN (IF _validate_rb_stats(d) THEN Passed ELSE Failed)
    ELSE IF d["position"] \in {PyStr(<<"W","R">>), PyStr(<<"T","E">>)}
         THEN (IF _validate_receiver_stats(d) THEN Passed ELSE Failed)
    ELSE Passed
\* The outcome of a method that returns val or raises, with the levels logged.
Returned(val, levels) == [raised |-> FALSE, val |-> val, log |-> levels]
Raises(levels) == [raised |-> TRUE, val |-> Raised, log |-> levels]

\* dataset.get(key, default)
Get(d, key, default) == IF key \in DOMAIN d THEN d[key] ELSE default

\* The keys of dataset['players'] in the order .items() yields them: the model
\* takes the positions to have been inserted in this order.
PositionKeys == <<"QB", "K">>
KeysInOrder(d) == SelectSeq(PositionKeys, LAMBDA key : key \in DOMAIN d)

\* valid_records / total_records * 100, as an exact fraction (the rounding of
\* the float division is not modelled).
Ratio(n, m) == IF m < 0 THEN [num |-> -n, den |-> -m] ELSE [num |-> n, den |-> m]

\* validation_rate without the factor 100: the fraction, not the percentage.
validation_rate_fraction(valid_records, total_records) ==
    IF total_records > 0 THEN Ratio(valid_records, total_records) ELSE Ratio(0, 1)

\* (valid_records / total_records * 100) if total_records > 0 else 0
validation_rate(valid_records, total_records) ==
    IF total_records > 0 THEN Ratio(valid_records * 100, total_records) ELSE Ratio(0, 1)

\* The report of validate_dataset while the loops run: raised is set when the
\* construction of an error message raises.
NewReport ==
    [total_teams |-> 0, valid_teams |-> 0, invalid_teams |-> 0, total_players |-> 0,
     valid_players |-> 0, invalid_players |-> 0, validation_errors |-> <<>>,
     raised |-> FALSE, log |-> {}]

\* f"Invalid {category} data: {record.get(key, 'Unknown')}"
ErrorMessage(category, record, key) ==
    [category |-> category,
     name |-> Get(record.d, key, PyStr(<<"U","n","k","n","o","w","n">>))]

\* for team in dataset['team_defense']: ...
RECURSIVE TeamLoop(_, _)
TeamLoop(teams, report) ==
    IF teams = <<>> \/ report.raised THEN report
    ELSE LET team == Head(teams)
             v == validate_team_stats(team)
         IN TeamLoop(Tail(teams),
                IF v.ret
                THEN [report EXCEPT !.valid_teams = @ + 1, !.log = @ \cup v.log]
                ELSE IF team.k # "dict"      \* no .get(): AttributeError
                THEN [report EXCEPT !.invalid_teams = @ + 1, !.log = @ \cup v.log,
                                    !.raised = TRUE]
                ELSE [report EXCEPT !.invalid_teams = @ + 1, !.log = @ \cup v.log,
                                    !.validation_errors =
                                        Append(@, ErrorMessage("team", team, "team"))])

\* for player in players: ...
RECURSIVE PlayerLoop(_, _, _)
PlayerLoop(position, players, report) ==
    IF players = <<>> \/ report.raised THEN report
    ELSE LET player == Head(players)
             v == validate_player_stats(player)
         IN PlayerLoop(position, Tail(players),
                IF v.ret
                THEN [report EXCEPT !.valid_players = @ + 1, !.log = @ \cup v.log]
                ELSE IF player.k # "dict"    \* no .get(): AttributeError
                THEN [report EXCEPT !.invalid_players = @ + 1, !.log = @ \cup v.log,
                                    !.raised = TRUE]
                ELSE [report EXCEPT !.invalid_players = @ + 1, !.log = @ \cup v.log,
                                    !.validation_errors =
                                        Append(@, ErrorMessage(position, player, "player_name"))])

\* for position, players in dataset['players'].items(): ...
RECURSIVE PositionLoop(_, _, _)
PositionLoop(keys, players, report) ==
    IF keys = <<>> \/ report.raised THEN report
    ELSE IF players[Head(keys)].k # "list"   \* len(None): TypeError
    THEN [report EXCEPT !.raised = TRUE]
    ELSE PositionLoop(Tail(keys), players,
             PlayerLoop(Head(keys), players[Head(keys)].v,
                        [report EXCEPT !.total_players = @ + Len(players[Head(keys)].v)]))

validate_dataset(dataset) ==
    IF dataset.k = "none" THEN Raises({})        \* 'team_defense' in None: TypeError
    ELSE LET d == dataset.d                      \* no key is in a list of records
             teams_done ==
                 IF "team_defense" \notin DOMAIN d THEN NewReport
                 ELSE IF d["team_defense"].k # "list"     \* len(None): TypeError
                 THEN [NewReport EXCEPT !.raised = TRUE]
                 ELSE TeamLoop(d["team_defense"].v,
                               [NewReport EXCEPT !.total_teams = Len(d["team_defense"].v)])
             report ==
                 IF teams_done.raised \/ "players" \notin DOMAIN d THEN teams_done
                 ELSE IF d["players"].k # "dict"          \* no .items(): AttributeError
                 THEN [teams_done EXCEPT !.raised = TRUE]
                 ELSE PositionLoop(KeysInOrder(d["players"].d), d["players"].d, teams_done)
             total_records == report.total_teams + report.total_players
             valid_records == report.valid_teams + report.valid_players
         IN IF report.raised THEN Raises(report.log)
            ELSE Returned(
                   [total_teams |-> report.total_teams, valid_teams |-> report.valid_teams,
                    invalid_teams |-> report.invalid_teams,
                    total_players |-> report.total_players,
                    valid_players |-> report.valid_players,
                    invalid_players |-> report.invalid_players,
                    validation_errors |-> report.validation_errors,
                    validation_rate |-> validation_rate(valid_records, total_records)],
                   report.log)

\* The levels the validations of the records of a list log.
TeamsLog(teams) == UNION {validate_team_stats(teams[n]).log : n \in 1..Len(teams)}
PlayersLog(players) == UNION {validate_player_stats(players[n]).log : n \in 1..Len(players)}

IsValidTeam(team) == validate_team_stats(team).ret

\* IsValidPlayer of a clean_data that appends every player.
IsValidPlayer_any(player) == TRUE

IsValidPlayer(player) == validate_player_stats(player).ret

\* clean_data with cleaned_dataset['team_defense'] initialised with the list
\* of the dataset instead of []: the valid teams are appended to all teams.
clean_data_appending(dataset) ==
    IF dataset.k # "dict" THEN Raises({})
    ELSE LET d == dataset.d IN
    IF "team_defense" \in DOMAIN d /\ d["team_defense"].k # "list"
    THEN Raises({})
    ELSE LET teams == IF "team_defense" \in DOMAIN d THEN d["team_defense"].v ELSE <<>> IN
    IF "players" \in DOMAIN d /\ d["players"].k # "dict"
    THEN Raises(TeamsLog(teams))
    ELSE LET players == IF "players" \in DOMAIN d THEN d["players"].d ELSE EmptyDict IN
    IF \E position \in DOMAIN players : players[position].k # "list"
    THEN Raises(TeamsLog(teams))
    ELSE Returned(
           [k |-> "dict",
            d |-> [scrape_info |-> Get(d, "scrape_info", EmptyObj),
                   team_defense |-> PyList(teams \o SelectSeq(teams, IsValidTeam)),
                   players |->
                       [k |-> "dict",
                        d |-> [position \in DOMAIN players |->
                                  PyList(SelectSeq(players[position].v, IsValidPlayer))]]]],
           TeamsLog(teams) \cup
           UNION {PlayersLog(players[position].v) :
                    position \in DOMAIN players})

clean_data(dataset) ==
    IF dataset.k # "dict" THEN Raises({})        \* no .get(): AttributeError
    ELSE LET d == dataset.d IN
    IF "team_defense" \in DOMAIN d /\ d["team_defense"].k # "list"
    THEN Raises({})                              \* for team in None: TypeError
    ELSE LET teams == IF "team_defense" \in DOMAIN d THEN d["team_defense"].v ELSE <<>> IN
    IF "players" \in DOMAIN d /\ d["players"].k # "dict"
    THEN Raises(TeamsLog(teams))      \* no .items(): AttributeError
    ELSE LET players == IF "players" \in DOMAIN d THEN d["players"].d ELSE EmptyDict IN
    IF \E position \in DOMAIN players : players[position].k # "list"
    THEN Raises(TeamsLog(teams))      \* for player in None: TypeError
    ELSE Returned(
           [k |-> "dict",
            d |-> [scrape_info |-> Get(d, "scrape_info", EmptyObj),
                   team_defense |-> PyList(SelectSeq(teams, IsValidTeam)),
                   players |->
                       [k |-> "dict",
                        d |-> [position \in DOMAIN players |->
                                  PyList(SelectSeq(players[position].v, IsValidPlayer))]]]],
           TeamsLog(teams) \cup
           UNION {PlayersLog(players[position].v) :
                    position \in DOMAIN players})

----------------------------------------------------------------------------
(* DefensiveStatsTransformer *)

\* bool(v)
Truthy(v) ==
    CASE v.k = "none" -> FALSE
      [] v.k \in {"int", "float"} -> v.i # 0
      [] v.k = "str" -> v.s # <<>>
      [] v.k = "list" -> v.v # <<>>
      [] v.k = "dict" -> DOMAIN v.d # {}
      [] OTHER -> TRUE

\* The operands of / that do not raise TypeError.
IsNumeric(v) == v.k \in {"int", "float"}

\* Skipped of a loop that skips only a record without the key games_played.
Skipped_absent_only(team) == "games_played" \notin DOMAIN team.d

\* The record is skipped: not team.get('games_played', 0)
Skipped(team) == ~Truthy(Get(team.d, "games_played", PyInt(0)))

\* The body of the loop raises on the record: AttributeError on a record
\* without .get(), KeyError without 'team', TypeError on a total or a
\* games_played that is no number, ZeroDivisionError on a games_played of 0.
ScoreRaises(team) ==
    \/ team.k # "dict"
    \/ /\ ~Skipped(team)
       /\ \/ "team" \notin DOMAIN team.d
          \/ ~IsNumeric(team.d["games_played"])
          \/ team.d["games_played"].i = 0
          \/ \E f \in {"points_allowed", "total_yards_allowed", "sacks", "turnovers_forced"} :
                ~IsNumeric(Get(team.d, f, PyInt(0)))

\* a < b and a = b for fractions with positive denominators.
Less(a, b) == a.num * b.den < b.num * a.den
Same(a, b) == a.num * b.den = b.num * a.den

\* strength_score with the yards per game not divided by 100.
strength_score_raw_yards(points, yards, turnovers, sacks, games) ==
    Ratio(400 * points + 300 * yards - 1000 * turnovers - 200 * sacks, 1000 * games)

\* points_per_game_allowed * 0.4 + (yards_per_game_allowed / 100) * 0.3
\*   - turnovers_per_game * 5 * 0.2 - sacks_per_game * 2 * 0.1,
\* each rate a total over games: the exact value, over the denominator 1000 * games.
strength_score(points, yards, turnovers, sacks, games) ==
    Ratio(400 * points + 3 * yards - 1000 * turnovers - 200 * sacks, 1000 * games)

\* defense_score with a strength_score that subtracts the season's turnovers
\* and sacks instead of the turnovers and sacks per game.
defense_score_totals(team) ==
    LET games == team.d["games_played"].i
        points == Get(team.d, "points_allowed", PyInt(0)).i
        yards == Get(team.d, "total_yards_allowed", PyInt(0)).i
        sacks == Get(team.d, "sacks", PyInt(0)).i
        turnovers == Get(team.d, "turnovers_forced", PyInt(0)).i
    IN [team |-> team.d["team"],
        games_played |-> team.d["games_played"],
        points_per_game_allowed |-> Ratio(points, games),
        yards_per_game_allowed |-> Ratio(yards, games),
        sacks_per_game |-> Ratio(sacks, games),
        turnovers_per_game |-> Ratio(turnovers, games),
        raw_data |-> team,
        strength_score |->
            strength_score(points, yards, turnovers * games, sacks * games, games)]

\* defense_score of a loop that stores the strength_score in the team record
\* it was given: raw_data is the record with the score written into it.
defense_score_in_place(team) ==
    LET games == team.d["games_played"].i
        points == Get(team.d, "points_allowed", PyInt(0)).i
        yards == Get(team.d, "total_yards_allowed", PyInt(0)).i
        sacks == Get(team.d, "sacks", PyInt(0)).i
        turnovers == Get(team.d, "turnovers_forced", PyInt(0)).i
    IN [team |-> team.d["team"],
        games_played |-> team.d["games_played"],
        points_per_game_allowed |-> Ratio(points, games),
        yards_per_game_allowed |-> Ratio(yards, games),
        sacks_per_game |-> Ratio(sacks, games),
        turnovers_per_game |-> Ratio(turnovers, games),
        raw_data |->
            [k |-> "dict",
             d |-> [key \in DOMAIN team.d \cup {"strength_score"} |->
                       IF key = "strength_score" THEN PyInt(0) ELSE team.d[key]]],
        strength_score |-> strength_score(points, yards, turnovers, sacks, games)]

\* defense_score with its strength_score, of a record that is not skipped.
defense_score(team) ==
    LET games == team.d["games_played"].i
        points == Get(team.d, "points_allowed", PyInt(0)).i
        yards == Get(team.d, "total_yards_allowed", PyInt(0)).i
        sacks == Get(team.d, "sacks", PyInt(0)).i
        turnovers == Get(team.d, "turnovers_forced", PyInt(0)).i
    IN [team |-> team.d["team"],
        games_played |-> team.d["games_played"],
        points_per_game_allowed |-> Ratio(points, games),
        yards_per_game_allowed |-> Ratio(yards, games),
        sacks_per_game |-> Ratio(sacks, games),
        turnovers_per_game |-> Ratio(turnovers, games),
        raw_data |-> team,
        strength_score |-> strength_score(points, yards, turnovers, sacks, games)]

\* defense_rankings after the first loop: an entry for each record not skipped.
RECURSIVE Scores(_)
Scores(teams) ==
    IF teams = <<>> THEN <<>>
    ELSE IF Skipped(Head(teams)) THEN Scores(Tail(teams))
    ELSE <<defense_score(Head(teams))>> \o Scores(Tail(teams))

\* InsertByScore for a sort with reverse=True: the highest score first.
InsertByScore_reverse(sorted, e) ==
    LET n == Cardinality({m \in 1..Len(sorted) :
                             ~Less(sorted[m].strength_score, e.strength_score)})
    IN SubSeq(sorted, 1, n) \o <<e>> \o SubSeq(sorted, n + 1, Len(sorted))

\* InsertByScore of a sort that is not stable: an entry goes before the
\* entries of the same score that precede it.
InsertByScore_unstable(sorted, e) ==
    LET n == Cardinality({m \in 1..Len(sorted) :
                             Less(sorted[m].strength_score, e.strength_score)})
    IN SubSeq(sorted, 1, n) \o <<e>> \o SubSeq(sorted, n + 1, Len(sorted))

\* list.sort(key=strength_score) is stable: an entry goes behind the entries
\* of a lower or the same score that precede it.
InsertByScore(sorted, e) ==
    LET n == Cardinality({m \in 1..Len(sorted) :
                             ~Less(e.strength_score, sorted[m].strength_score)})
    IN SubSeq(sorted, 1, n) \o <<e>> \o SubSeq(sorted, n + 1, Len(sorted))

RECURSIVE SortByScore(_, _)
SortByScore(sorted, rest) ==
    IF rest = <<>> THEN sorted
    ELSE SortByScore(InsertByScore(sorted, Head(rest)), Tail(rest))

\* WithRank with defense['rank'] = i: the ranks start at 0.
WithRank_from_zero(defense, i, len) ==
    [team |-> defense.team, games_played |-> defense.games_played,
     points_per_game_allowed |-> defense.points_per_game_allowed,
     yards_per_game_allowed |-> defense.yards_per_game_allowed,
     sacks_per_game |-> defense.sacks_per_game,
     turnovers_per_game |-> defense.turnovers_per_game,
     raw_data |-> defense.raw_data, strength_score |-> defense.strength_score,
     rank |-> i, percentile |-> Ratio((len - i) * 100, len)]

\* defense['rank'] = i + 1; defense['percentile'] = (len - i) / len * 100
WithRank(defense, i, len) ==
    [team |-> defense.team, games_played |-> defense.games_played,
     points_per_game_allowed |-> defense.points_per_game_allowed,
     yards_per_game_allowed |-> defense.yards_per_game_allowed,
     sacks_per_game |-> defense.sacks_per_game,
     turnovers_per_game |-> defense.turnovers_per_game,
     raw_data |-> defense.raw_data, strength_score |-> defense.strength_score,
     rank |-> i + 1, percentile |-> Ratio((len - i) * 100, len)]

\* defense_rankings after the sort and the second loop.
defense_rankings(teams) ==
    LET sorted == SortByScore(<<>>, Scores(teams))
    IN [n \in 1..Len(sorted) |-> WithRank(sorted[n], n - 1, Len(sorted))]

\* What _rank_team_defenses returns of its defense_rankings (the lines after
\* the second loop are not in the source): the ordered list.
ranking_result(rankings) == PyList(rankings)

\* _rank_team_defenses without its guard of an empty team_defense_data.
_rank_team_defenses_no_guard(team_defense_data) ==
    IF team_defense_data.k # "list" THEN Raises({})
    ELSE IF \E n \in 1..Len(team_defense_data.v) : ScoreRaises(team_defense_data.v[n])
    THEN Raises({})
    ELSE Returned(ranking_result(defense_rankings(team_defense_data.v)), {})

_rank_team_defenses(team_defense_data) ==
    IF ~Truthy(team_defense_data) THEN Returned(EmptyObj, {})
    ELSE IF team_defense_data.k # "list"         \* the keys of a dict have no .get()
    THEN Raises({})
    ELSE IF \E n \in 1..Len(team_defense_data.v) : ScoreRaises(team_defense_data.v[n])
    THEN Raises({})
    ELSE Returned(ranking_result(defense_rankings(team_defense_data.v)), {})

\* The adjustment of one player: the opponent's defense is not known from the
\* record, so the factor is the neutral 1.0.
adjusted_player(player) == [raw_data |-> player, adjustment_factor |-> Ratio(1, 1)]

\* _calculate_defense_adjustments (not in the source): the players of each
\* position with their adjustment; a record that is not a mapping raises.
_calculate_defense_adjustments(players, team_defense) ==
    IF ~Truthy(players) THEN Returned(EmptyObj, {})
    ELSE IF \E position \in DOMAIN players.d :
               \/ players.d[position].k # "list"
               \/ \E n \in 1..Len(players.d[position].v) : players.d[position].v[n].k # "dict"
    THEN Raises({})
    ELSE Returned(
           [k |-> "dict",
            d |-> [position \in DOMAIN players.d |->
                      PyList([n \in 1..Len(players.d[position].v) |->
                                 adjusted_player(players.d[position].v[n])])]],
           {})

\* The number of elements of a list, 0 of None or of an absent key.
Count(v) == IF v.k = "list" THEN Len(v.v) ELSE 0

\* _generate_analytics (not in the source): the counts of the records.
_generate_analytics(raw_data) ==
    LET players == Get(raw_data.d, "players", EmptyObj) IN
    Returned(
      [total_teams |-> Count(Get(raw_data.d, "team_defense", PyList(<<>>))),
       positions |-> IF players.k = "dict" THEN DOMAIN players.d ELSE {}],
      {})

\* transform_data with a handler that logs the error and raises it again.
transform_data_reraise(raw_data, now) ==
    IF raw_data.k # "dict"
    THEN Raises({"info", "error"})
    ELSE LET d == raw_data.d
             rankings == _rank_team_defenses(Get(d, "team_defense", PyList(<<>>)))
             adjusted == _calculate_defense_adjustments(Get(d, "players", EmptyObj),
                                                        Get(d, "team_defense", PyList(<<>>)))
             analytics == _generate_analytics(raw_data)
         IN IF rankings.raised \/ adjusted.raised \/ analytics.raised
            THEN Raises({"info", "error"})
            ELSE Returned(
                   [k |-> "dict",
                    d |-> [metadata |->
                               [transformation_timestamp |-> now,
                                source |-> Get(d, "scrape_info", EmptyObj),
                                transformation_version |-> "1.0"],
                           team_defense_rankings |-> rankings.val,
                           defense_adjusted_players |-> adjusted.val,
                           analytics |-> analytics.val,
                           raw_data |-> raw_data]],
                   {"info"})

transform_data(raw_data, now) ==
    IF raw_data.k # "dict"                       \* no .get(): AttributeError
    THEN Returned(raw_data, {"info", "error"})
    ELSE LET d == raw_data.d
             rankings == _rank_team_defenses(Get(d, "team_defense", PyList(<<>>)))
             adjusted == _calculate_defense_adjustments(Get(d, "players", EmptyObj),
                                                        Get(d, "team_defense", PyList(<<>>)))
             analytics == _generate_analytics(raw_data)
         IN IF rankings.raised \/ adjusted.raised \/ analytics.raised
            THEN Returned(raw_data, {"info", "error"})
            ELSE Returned(
                   [k |-> "dict",
                    d |-> [metadata |->
                               [transformation_timestamp |-> now,
                                source |-> Get(d, "scrape_info", EmptyObj),
                                transformation_version |-> "1.0"],
                           team_defense_rankings |-> rankings.val,
                           defense_adjusted_players |-> adjusted.val,
                           analytics |-> analytics.val,
                           raw_data |-> raw_data]],
                   {"info"})

----------------------------------------------------------------------------
(* Inputs of the record validators *)

\* The values a field of a team record takes: absent, None, a float, a value
\* at each edge of the range the validator accepts and one on either side.
TeamNames ==
    {Absent, PyNone, PyInt(5), PyStr(<<"K","C">>), PyStr(<<"X","X">>), PyStr(<<" ","K"," ">>),
     PyStr(<<>>)}
TeamGames == {Absent, PyNone, PyInt(0), PyInt(1), PyInt(21), PyInt(22), PyFloat(17)}
TeamPoints == {Absent, PyNone, PyInt(-1), PyInt(0), PyInt(1000), PyInt(1001), PyFloat(300)}
TeamYears == {Absent, PyNone, PyInt(1999), PyInt(2000), PyInt(2030), PyInt(2031), PyFloat(2024)}
TeamYards == {Absent, PyNone, PyInt(-1), PyInt(0), PyInt(10000), PyInt(10001), PyFloat(5200)}
TeamSacks == {Absent, PyNone, PyInt(-1), PyInt(0), PyInt(100), PyInt(101), PyFloat(45)}
TeamTurnovers == {Absent, PyNone, PyInt(-1), PyInt(0), PyInt(60), PyInt(61), PyFloat(22)}

\* The team records validate_team_stats is called on: every combination of
\* the required fields with the optional fields absent, valid or invalid, and
\* every combination of the optional fields with valid required fields.
TeamInputs ==
    {NoneObj, ListObj} \cup
    { PyDict(f) : f \in [team : TeamNames, games_played : TeamGames,
                         points_allowed : TeamPoints, year : TeamYears,
                         total_yards_allowed : {Absent, PyInt(5200)},
                         sacks : {Absent, PyInt(101)},
                         turnovers_forced : {Absent}] } \cup
    { PyDict(f) : f \in [team : {PyStr(<<"K","C">>), PyStr(<<"X","X">>)},
                         games_played : {PyInt(1), PyInt(21)},
                         points_allowed : {PyInt(0), PyInt(1000)},
                         year : {PyInt(2000), PyInt(2030)},
                         total_yards_allowed : TeamYards, sacks : TeamSacks,
                         turnovers_forced : TeamTurnovers] }

\* The values a field of a player record takes.
PosQB == PyStr(<<"Q","B">>)
PosRB == PyStr(<<"R","B">>)
PosWR == PyStr(<<"W","R">>)
PosTE == PyStr(<<"T","E">>)
PosK == PyStr(<<"K">>)
PosDEF == PyStr(<<"D","E","F">>)
PosLB == PyStr(<<"L","B">>)
PlayerNames ==
    {Absent, PyNone, PyInt(7), PyStr(<<"A","l">>), PyStr(<<" ","A"," ">>), PyStr(<<>>),
     PyStr(<<"1","2">>), PyStr(<<"A","1">>)}
PlayerPositions == {Absent, PyNone, PosQB, PosRB, PosWR, PosTE, PosK, PosDEF, PosLB}
PlayerGames == {Absent, PyNone, PyInt(-1), PyInt(0), PyInt(21), PyInt(22), PyFloat(16)}
QBAttempts ==
    {Absent, PyNone, PyInt(-1), PyInt(0), PyInt(10), PyInt(1000), PyInt(1001), PyFloat(10)}
QBCompletions ==
    {Absent, PyNone, PyInt(-1), PyInt(0), PyInt(5), PyInt(10), PyInt(15), PyFloat(5)}
QBYards == {Absent, PyInt(-101), PyInt(-100), PyInt(10000), PyInt(10001), PyFloat(4000)}
QBTouchdowns == {Absent, PyInt(-1), PyInt(0), PyInt(100), PyInt(101)}
QBInterceptions == {Absent, PyInt(-1), PyInt(0), PyInt(50), PyInt(51)}
RBCarries == {Absent, PyNone, PyInt(-1), PyInt(0), PyInt(500), PyInt(501), PyFloat(200)}
RBYards == {Absent, PyInt(-101), PyInt(-100), PyInt(3000), PyInt(3001), PyFloat(900)}
RBTouchdowns == {Absent, PyInt(-1), PyInt(0), PyInt(50), PyInt(51), PyFloat(9)}
RecReceptions == {Absent, PyNone, PyInt(-1), PyInt(0), PyInt(200), PyInt(201), PyFloat(80)}
RecYards == {Absent, PyInt(-51), PyInt(-50), PyInt(3000), PyInt(3001), PyFloat(900)}
RecTouchdowns == {Absent, PyInt(-1), PyInt(0), PyInt(50), PyInt(51), PyFloat(9)}

\* The player records validate_player_stats is called on: every combination of
\* the fields all positions share, with and without an invalid statistic,
\* and, with valid shared fields, every combination of the statistics of a
\* quarterback, a running back and a receiver under a position that checks
\* them and under positions that do not.
PlayerInputs ==
    {NoneObj, ListObj} \cup
    { PyDict(f) : f \in [player_name : PlayerNames, team : {PyNone, PyStr(<<"K","C">>)},
                         position : PlayerPositions, year : {Absent, PyInt(2024)},
                         games_played : PlayerGames, attempts : {Absent, PyInt(1001)}] } \cup
    { PyDict(f) : f \in [player_name : {PyStr(<<"A","l">>)}, team : {PyStr(<<"K","C">>)},
                         position : {PosQB, PosRB, PosK}, year : {PyInt(2024)},
                         attempts : QBAttempts, completions : QBCompletions,
                         passing_yards : {Absent, PyInt(4000)},
                         touchdowns : {Absent, PyInt(30)},
                         interceptions : {Absent, PyInt(10)}] } \cup
    { PyDict(f) : f \in [player_name : {PyStr(<<"A","l">>)}, team : {PyStr(<<"K","C">>)},
                         position : {PosQB, PosRB, PosK}, year : {PyInt(2024)},
                         attempts : {Absent, PyInt(10)}, completions : {Absent, PyInt(5)},
                         passing_yards : QBYards, touchdowns : QBTouchdowns,
                         interceptions : QBInterceptions] } \cup
    { PyDict(f) : f \in [player_name : {PyStr(<<"A","l">>)}, team : {PyStr(<<"K","C">>)},
                         position : {PosRB, PosWR, PosDEF}, year : {PyInt(2024)},
                         games_played : {PyInt(16)},
                         carries : RBCarries, rushing_yards : RBYards,
                         rushing_tds : RBTouchdowns] } \cup
    { PyDict(f) : f \in [player_name : {PyStr(<<"A","l">>)}, team : {PyStr(<<"K","C">>)},
                         position : {PosWR, PosTE, PosQB, PosDEF}, year : {PyInt(2024)},
                         receptions : RecReceptions, receiving_yards : RecYards,
                         receiving_tds : RecTouchdowns] }

----------------------------------------------------------------------------
(* Inputs of the batch operations *)

\* The longest team_defense list and the longest list of players of a position.
MaxTeams == 2
MaxPlayers == 2

SeqsUpTo(S, n) == UNION {[1..m -> S] : m \in 0..n}

TeamRecord(team, games, points, yards, sacks, turnovers) ==
    PyDict([team |-> team, games_played |-> games, points_allowed |-> points,
            total_yards_allowed |-> yards, sacks |-> sacks, turnovers_forced |-> turnovers,
            year |-> PyInt(2024)])

\* Two valid teams of the same strength, a valid team of another strength, a
\* team without games, a team without a name, and a record that is None.
TeamKC == TeamRecord(PyStr(<<"K","C">>), PyInt(17), PyInt(300), PyInt(5200), PyInt(45), PyInt(22))
TeamSF == TeamRecord(PyStr(<<"S","F">>), PyInt(17), PyInt(300), PyInt(5200), PyInt(45), PyInt(22))
TeamBUF == TeamRecord(PyStr(<<"B","U","F">>), PyInt(16), PyInt(280), Absent, PyInt(50), Absent)
TeamNoGames == TeamRecord(PyStr(<<"N","E">>), PyInt(0), PyInt(0), Absent, Absent, Absent)
TeamNoName == TeamRecord(Absent, PyInt(17), PyInt(310), Absent, Absent, Absent)
BatchTeams == {TeamKC, TeamSF, TeamBUF, TeamNoGames, TeamNoName, NoneObj}
\* A team with a negative games_played, and a record with neither a name nor
\* games_played.
TeamNegGames == TeamRecord(PyStr(<<"N","Y","J">>), PyInt(-1), PyInt(300), Absent, Absent, Absent)
TeamNoKeys == TeamRecord(Absent, Absent, Absent, Absent, Absent, Absent)

PlayerRecord(name, position, attempts, completions) ==
    PyDict([player_name |-> name, team |-> PyStr(<<"K","C">>), position |-> position,
            year |-> PyInt(2024), attempts |-> attempts, completions |-> completions])

\* A valid quarterback, a quarterback with more completions than attempts, a
\* kicker without a name, and a record that is None.
PlayerQB == PlayerRecord(PyStr(<<"A","l">>), PosQB, PyInt(10), PyInt(5))
PlayerBadQB == PlayerRecord(PyStr(<<"C","y">>), PosQB, PyInt(10), PyInt(15))
PlayerNoName == PlayerRecord(Absent, PosK, Absent, Absent)
BatchPlayers == {PlayerQB, PlayerBadQB, PlayerNoName, NoneObj}

ScrapeInfo == PyDict([year |-> PyInt(2024)])

\* dataset['team_defense']: absent, None or a list of at most MaxTeams records.
TeamDefenses == {Absent, NoneObj} \cup {PyList(v) : v \in SeqsUpTo(BatchTeams, MaxTeams)}

\* dataset['players']: absent, None or a mapping of some of the positions to
\* lists of records, at most MaxPlayers under QB and at most one under K.
PlayerLists(n) == {Absent} \cup {PyList(v) : v \in SeqsUpTo(BatchPlayers, n)}
PlayersByPosition ==
    {Absent, NoneObj} \cup {PyDict(f) : f \in [QB : PlayerLists(MaxPlayers), K : PlayerLists(1)]}

\* The datasets the batch operations are called on: None, every team_defense
\* with a few players, and every players mapping with a few team_defense.
Datasets ==
    {NoneObj} \cup
    { PyDict(f) : f \in [scrape_info : {Absent, ScrapeInfo}, team_defense : TeamDefenses,
                         players : {Absent, NoneObj, PyDict([QB |-> PyList(<<PlayerQB>>)]),
                                    PyDict([QB |-> PyList(<<PlayerQB, PlayerBadQB>>)]),
                                    PyDict([QB |-> PyList(<<NoneObj>>)])}] } \cup
    { PyDict(f) : f \in [scrape_info : {Absent, ScrapeInfo},
                         team_defense : {Absent, PyList(<<>>), PyList(<<TeamKC, TeamNoGames>>),
                                         PyList(<<TeamNegGames>>)},
                         players : PlayersByPosition] }

\* What datetime.now().isoformat() returns.
Timestamps == {"2024-09-01T12:00:00", "2024-09-01T12:00:01"}

\* The longest list _rank_team_defenses is called on.
MaxRanked == 3

\* What the ranking is called on: None, the lists of at most MaxRanked of
\* these records, and each record by itself (a record is what
\* validate_team_stats is called on).
RankTeams ==
    {TeamKC, TeamSF, TeamBUF, TeamNoGames, TeamNoName, TeamNegGames, TeamNoKeys, NoneObj}
RankInputs == RankTeams \cup {PyList(v) : v \in SeqsUpTo(RankTeams, MaxRanked)}

\* The values any method of the pipeline is called on.
PipelineInputs == Datasets \cup RankInputs \cup BatchPlayers

\* The most calls made on one validator.
MaxCalls == 3

\* The arguments of a sequence of calls: a team, a player, a dataset with
\* valid and invalid records and a dataset with a record that is None.
DatasetMixed ==
    PyDict([team_defense |-> PyList(<<TeamKC, TeamNoGames>>),
            players |-> PyDict([QB |-> PyList(<<PlayerQB, PlayerBadQB>>)])])
DatasetNoneRecord == PyDict([players |-> PyDict([QB |-> PyList(<<NoneObj>>)])])
CallInputs == {TeamKC, PlayerBadQB, DatasetMixed, DatasetNoneRecord}

----------------------------------------------------------------------------
(* The calls *)

\* A behaviour is one call on a freshly constructed validator: the initial
\* state holds the argument the caller is about to pass.
InitTeam ==
    /\ valid_teams = ValidTeams
    /\ op = "init"
    /\ arg \in TeamInputs
    /\ res = FALSE
    /\ log = {}
    /\ done = <<>>

ValidateTeamStats ==
    /\ op = "init"
    /\ op' = "validate_team_stats"
    /\ res' = validate_team_stats(arg).ret
    /\ log' = validate_team_stats(arg).log
    /\ done' = Append(done, [op |-> "validate_team_stats", arg |-> arg, res |-> validate_team_stats(arg).ret])
    /\ valid_teams' = valid_teams_after_call(valid_teams)
    /\ UNCHANGED arg

NextTeam == ValidateTeamStats
SpecTeam == InitTeam /\ [][NextTeam]_vars

InitPlayer ==
    /\ valid_teams = ValidTeams
    /\ op = "init"
    /\ arg \in PlayerInputs
    /\ res = FALSE
    /\ log = {}
    /\ done = <<>>

ValidatePlayerStats ==
    /\ op = "init"
    /\ op' = "validate_player_stats"
    /\ res' = validate_player_stats(arg).ret
    /\ log' = validate_player_stats(arg).log
    /\ done' = Append(done, [op |-> "validate_player_stats", arg |-> arg, res |-> validate_player_stats(arg).ret])
    /\ valid_teams' = valid_teams_after_call(valid_teams)
    /\ UNCHANGED arg

NextPlayer == ValidatePlayerStats
SpecPlayer == InitPlayer /\ [][NextPlayer]_vars

InitBatch ==
    /\ valid_teams = ValidTeams
    /\ op = "init"
    /\ arg \in Datasets
    /\ res = FALSE
    /\ log = {}
    /\ done = <<>>

ValidateDataset ==
    /\ op = "init"
    /\ op' = "validate_dataset"
    /\ res' = validate_dataset(arg).val
    /\ log' = validate_dataset(arg).log
    /\ done' = Append(done, [op |-> "validate_dataset", arg |-> arg, res |-> validate_dataset(arg).val])
    /\ valid_teams' = valid_teams_after_call(valid_teams)
    /\ UNCHANGED arg

CleanData ==
    /\ op = "init"
    /\ op' = "clean_data"
    /\ res' = clean_data(arg).val
    /\ log' = clean_data(arg).log
    /\ done' = Append(done, [op |-> "clean_data", arg |-> arg, res |-> clean_data(arg).val])
    /\ valid_teams' = valid_teams_after_call(valid_teams)
    /\ UNCHANGED arg

TransformData ==
    /\ op = "init"
    /\ \E now \in Timestamps :
        /\ op' = "transform_data"
        /\ res' = transform_data(arg, now).val
        /\ log' = transform_data(arg, now).log
        /\ done' = Append(done, [op |-> "transform_data", arg |-> arg,
                                 res |-> transform_data(arg, now).val])
    /\ UNCHANGED <<valid_teams, arg>>

NextBatch == ValidateDataset \/ CleanData \/ TransformData
SpecBatch == InitBatch /\ [][NextBatch]_vars

\* The caller passes what clean_data returned to clean_data once more.
CleanCleaned ==
    /\ op = "clean_data"
    /\ Len(done) = 1
    /\ res # Raised
    /\ arg' = res
    /\ op' = "clean_data"
    /\ res' = clean_data(res).val
    /\ log' = clean_data(res).log
    /\ done' = Append(done, [op |-> "clean_data", arg |-> res, res |-> clean_data(res).val])
    /\ valid_teams' = valid_teams_after_call(valid_teams)

NextClean == CleanData \/ CleanCleaned
SpecClean == InitBatch /\ [][NextClean]_vars

\* One call of the ranking, or of the validation of a team record.
InitRank ==
    /\ valid_teams = ValidTeams
    /\ op = "init"
    /\ arg \in RankInputs
    /\ res = FALSE
    /\ log = {}
    /\ done = <<>>

RankTeamDefenses ==
    /\ op = "init"
    /\ op' = "_rank_team_defenses"
    /\ res' = _rank_team_defenses(arg).val
    /\ log' = _rank_team_defenses(arg).log
    /\ done' = Append(done, [op |-> "_rank_team_defenses", arg |-> arg,
                             res |-> _rank_team_defenses(arg).val])
    /\ UNCHANGED <<valid_teams, arg>>

NextRank == RankTeamDefenses \/ ValidateTeamStats
SpecRank == InitRank /\ [][NextRank]_vars

\* One call of any method of the validator, or of the ranking, on any value.
InitPipeline ==
    /\ valid_teams = ValidTeams
    /\ op = "init"
    /\ arg \in PipelineInputs
    /\ res = FALSE
    /\ log = {}
    /\ done = <<>>

NextPipeline ==
    \/ ValidateTeamStats
    \/ ValidatePlayerStats
    \/ ValidateDataset
    \/ CleanData
    \/ RankTeamDefenses
SpecPipeline == InitPipeline /\ [][NextPipeline]_vars

\* A sequence of at most MaxCalls calls on one validator: after a call the
\* caller holds the next argument.
InitCalls ==
    /\ valid_teams = ValidTeams
    /\ op = "init"
    /\ arg \in CallInputs
    /\ res = FALSE
    /\ log = {}
    /\ done = <<>>

NextArgument ==
    /\ op # "init"
    /\ Len(done) < MaxCalls
    /\ op' = "init"
    /\ arg' \in CallInputs
    /\ res' = FALSE
    /\ log' = {}
    /\ UNCHANGED <<valid_teams, done>>

NextCalls ==
    \/ NextArgument
    \/ ValidateTeamStats
    \/ ValidatePlayerStats
    \/ ValidateDataset
    \/ CleanData
SpecCalls == InitCalls /\ [][NextCalls]_vars

----------------------------------------------------------------------------
(* Properties of validate_team_stats *)

\* The value of key f of a record, Absent when the record lacks the key or is
\* not a mapping.
Field(obj, f) == IF obj.k = "dict" /\ f \in DOMAIN obj.d THEN obj.d[f] ELSE Absent

IsNumber(v) == v.k \in {"int", "float"}
Within(v, lo, hi) == IsNumber(v) /\ lo <= v.i /\ v.i <= hi
AbsentOrNull(obj, f) == Field(obj, f) \in {Absent, PyNone}
RequiredTeamFieldMissing(obj) ==
    \E f \in {"team", "games_played", "points_allowed", "year"} : AbsentOrNull(obj, f)
NotIntOrOutside(v, lo, hi) == ~IsInt(v) \/ ~Within(v, lo, hi)
PresentAndOutside(obj, f, lo, hi) == Field(obj, f) # Absent /\ ~Within(Field(obj, f), lo, hi)
PresentAndNotIntOrOutside(obj, f, lo, hi) ==
    Field(obj, f) # Absent /\ NotIntOrOutside(Field(obj, f), lo, hi)

\* The conditions of rejection as the specification lists them: the team name
\* is measured as written (a team that is not a string counts as no name),
\* and an optional field fails only by lying outside its range.
TeamRejectedAsListed(obj) ==
    \/ RequiredTeamFieldMissing(obj)
    \/ Field(obj, "team").k # "str"
    \/ Len(Field(obj, "team").s) < 2
    \/ NotIntOrOutside(Field(obj, "games_played"), 1, 21)
    \/ NotIntOrOutside(Field(obj, "points_allowed"), 0, 1000)
    \/ PresentAndOutside(obj, "total_yards_allowed", 0, 10000)
    \/ PresentAndOutside(obj, "sacks", 0, 100)
    \/ PresentAndOutside(obj, "turnovers_forced", 0, 60)
    \/ NotIntOrOutside(Field(obj, "year"), 2000, 2030)

\* The conditions of rejection of the code: the team must be a string of at
\* least 2 characters once trimmed, and a present optional field must be an
\* integer in its range.
TeamRejected(obj) ==
    \/ RequiredTeamFieldMissing(obj)
    \/ Field(obj, "team").k # "str"
    \/ Len(strip(Field(obj, "team").s)) < 2
    \/ NotIntOrOutside(Field(obj, "games_played"), 1, 21)
    \/ NotIntOrOutside(Field(obj, "points_allowed"), 0, 1000)
    \/ PresentAndNotIntOrOutside(obj, "total_yards_allowed", 0, 10000)
    \/ PresentAndNotIntOrOutside(obj, "sacks", 0, 100)
    \/ PresentAndNotIntOrOutside(obj, "turnovers_forced", 0, 60)
    \/ NotIntOrOutside(Field(obj, "year"), 2000, 2030)

\* C5 as stated: validate_team_stats returns false if and only if one of the
\* listed conditions holds (a required field absent or null, a team name
\* shorter than 2 characters, games_played, points_allowed or year not an
\* integer or out of range, a present optional field out of range).
C5_RejectsIffListed ==
    op = "validate_team_stats" => (res = FALSE <=> TeamRejectedAsListed(arg))

\* C5 amended: validate_team_stats returns false if and only if a required
\* field is absent or null, the team is not a string or is shorter than 2
\* characters after trimming, games_played, points_allowed or year is not an
\* integer or is out of range, or a present optional field is not an integer
\* or is out of range; games_played 1 and 21 pass and 0 and 22 fail.
C5_RejectsIffRejected ==
    op = "validate_team_stats" => (res = FALSE <=> TeamRejected(arg))

\* A record with every field present and at an edge of its range, 21 games
\* played, is accepted.
C5_Witness ==
    /\ op = "validate_team_stats"
    /\ res = TRUE
    /\ Field(arg, "games_played") = PyInt(21)
    /\ Field(arg, "total_yards_allowed") = PyInt(10000)
    /\ Field(arg, "sacks") = PyInt(100)
    /\ Field(arg, "turnovers_forced") = PyInt(60)

\* C6: a team record is accepted only if its team identifier is a member of
\* the validator's valid_teams.
C6_AcceptedOnlyKnownTeam ==
    op = "validate_team_stats" /\ res = TRUE
        => ToStr(strip(Field(arg, "team").s)) \in valid_teams

----------------------------------------------------------------------------
(* Properties of validate_player_stats *)

Position(obj) == Field(obj, "position")
Present(obj, f) == Field(obj, f) # Absent
TrimmedName(obj) == strip(Field(obj, "player_name").s)

\* C4: a QB record with attempts and completions both present and
\* completions > attempts is rejected, whatever attempts is (0 included).
C4_CompletionsOverAttemptsRejected ==
    /\ op = "validate_player_stats"
    /\ Position(arg) = PosQB
    /\ IsNumber(Field(arg, "attempts"))
    /\ IsNumber(Field(arg, "completions"))
    /\ Field(arg, "completions").i > Field(arg, "attempts").i
    => res = FALSE

\* A condition under which C7 says the record is rejected.
PlayerMustFail(obj) ==
    \/ \E f \in {"player_name", "team", "position", "year"} : AbsentOrNull(obj, f)
    \/ /\ Field(obj, "player_name").k = "str"
       /\ (Len(TrimmedName(obj)) < 2 \/ ~HasLetter(TrimmedName(obj)))
    \/ Position(obj) \notin {PosQB, PosRB, PosWR, PosTE, PosK, PosDEF}
    \/ PresentAndOutside(obj, "games_played", 0, 21)

\* C7: validate_player_stats returns false for every record with a required
\* field missing or null, a trimmed player_name that is empty, shorter than 2
\* characters or without a letter, a position outside QB, RB, WR, TE, K, DEF,
\* or a present games_played outside [0,21], whatever its other fields are.
C7_PlayerCommonChecks ==
    op = "validate_player_stats" /\ PlayerMustFail(arg) => res = FALSE

\* A linebacker whose every other field is valid is rejected.
C7_Witness ==
    /\ op = "validate_player_stats"
    /\ res = FALSE
    /\ Position(arg) = PosLB
    /\ Field(arg, "player_name") = PyStr(<<"A","l">>)
    /\ Field(arg, "team") = PyStr(<<"K","C">>)
    /\ Field(arg, "year") = PyInt(2024)
    /\ Field(arg, "games_played") = PyInt(21)
    /\ ~Present(arg, "attempts")

\* The record passes the checks all positions share.
CommonChecksPass(obj) ==
    /\ obj.k = "dict"
    /\ ~PlayerMustFail(obj)
    /\ Field(obj, "player_name").k = "str"
    /\ ~PresentAndNotIntOrOutside(obj, "games_played", 0, 21)

\* Field f, if present, lies in [lo, hi].
InRange(obj, f, lo, hi) == ~PresentAndOutside(obj, f, lo, hi)
\* Field f, if present, is an integer in [lo, hi].
IntInRange(obj, f, lo, hi) == ~PresentAndNotIntOrOutside(obj, f, lo, hi)

\* completions, if present, is a T of at least 0 and, when attempts is present
\* and positive, of at most attempts.
CompletionsInRange(obj, T(_)) ==
    Present(obj, "completions") =>
        /\ T(Field(obj, "completions")) /\ Field(obj, "completions").i >= 0
        /\ (IsNumber(Field(obj, "attempts")) /\ Field(obj, "attempts").i > 0
            => Field(obj, "completions").i <= Field(obj, "attempts").i)

\* The position-specific fields lie in their stated ranges; R(obj, f, lo, hi)
\* says what lying in a range is.
StatsInRange(obj, R(_, _, _, _), completions_ok) ==
    CASE Position(obj) = PosQB ->
            /\ R(obj, "attempts", 0, 1000)
            /\ completions_ok
            /\ R(obj, "passing_yards", -100, 10000)
            /\ R(obj, "touchdowns", 0, 100)
            /\ R(obj, "interceptions", 0, 50)
      [] Position(obj) = PosRB ->
            /\ R(obj, "carries", 0, 500)
            /\ R(obj, "rushing_yards", -100, 3000)
            /\ R(obj, "rushing_tds", 0, 50)
      [] Position(obj) \in {PosWR, PosTE} ->
            /\ R(obj, "receptions", 0, 200)
            /\ R(obj, "receiving_yards", -50, 3000)
            /\ R(obj, "receiving_tds", 0, 50)
      [] OTHER -> TRUE

\* C8 as stated: a record that passes the common checks is accepted exactly
\* when every present position-specific field lies in its stated range (K
\* and DEF: always).
C8_AcceptedIffInRange ==
    op = "validate_player_stats" /\ CommonChecksPass(arg)
        => (res = TRUE <=> StatsInRange(arg, InRange, CompletionsInRange(arg, IsNumber)))

\* C8 amended: a record that passes the common checks is accepted exactly
\* when every present position-specific field is an integer in its stated
\* range, completions at most attempts when attempts is present and positive
\* (K and DEF: always, whatever the position-specific fields hold).
C8_AcceptedIffIntInRange ==
    op = "validate_player_stats" /\ CommonChecksPass(arg)
        => (res = TRUE <=>
              StatsInRange(arg, IntInRange, CompletionsInRange(arg, IsInt)))

\* A kicker with an out-of-range statistic present is accepted.
C8_Witness ==
    /\ op = "validate_player_stats"
    /\ res = TRUE
    /\ Position(arg) = PosK
    /\ Field(arg, "attempts") = PyInt(1001)

----------------------------------------------------------------------------
(* Properties of transform_data *)

TeamDefenseOf(raw_data) == Get(raw_data.d, "team_defense", PyList(<<>>))
PlayersOf(raw_data) == Get(raw_data.d, "players", EmptyObj)

RankingFails(raw_data) == _rank_team_defenses(TeamDefenseOf(raw_data)).raised
AdjustmentFails(raw_data) ==
    _calculate_defense_adjustments(PlayersOf(raw_data), TeamDefenseOf(raw_data)).raised
AnalyticsFails(raw_data) == _generate_analytics(raw_data).raised

\* A stage of the pipeline fails on raw_data: the construction of the
\* metadata (raw_data is no mapping), the ranking, the adjustment or the
\* analytics.
StageFails(raw_data) ==
    \/ raw_data.k # "dict"
    \/ RankingFails(raw_data)
    \/ AdjustmentFails(raw_data)
    \/ AnalyticsFails(raw_data)

ResultKeys ==
    {"metadata", "team_defense_rankings", "defense_adjusted_players", "analytics", "raw_data"}
IsTransformedResult(v) == v.k = "dict" /\ DOMAIN v.d = ResultKeys

\* C1: when a stage of transform_data fails, transform_data does not raise and
\* returns the raw_data it was given, unchanged.
C1_FailureReturnsRawData ==
    op = "transform_data" /\ StageFails(arg) => res # Raised /\ res = arg

\* The ranking fails on a team record without a name and raw_data comes back.
C1_Witness ==
    /\ op = "transform_data"
    /\ arg.k = "dict"
    /\ RankingFails(arg)
    /\ \E n \in 1..Len(TeamDefenseOf(arg).v) : TeamDefenseOf(arg).v[n] = TeamNoName
    /\ res = arg

NoTeamDefenseKey(raw_data) == raw_data.k = "dict" /\ "team_defense" \notin DOMAIN raw_data.d

WellFormed(raw_data) ==
    /\ raw_data.k = "dict"
    /\ DOMAIN raw_data.d = {"scrape_info", "team_defense", "players"}
    /\ raw_data.d["team_defense"].k = "list"
    /\ \A n \in 1..Len(raw_data.d["team_defense"].v) :
          IsValidTeam(raw_data.d["team_defense"].v[n])
    /\ raw_data.d["players"].k = "dict"
    /\ \A position \in DOMAIN raw_data.d["players"].d :
          /\ raw_data.d["players"].d[position].k = "list"
          /\ \A n \in 1..Len(raw_data.d["players"].d[position].v) :
                IsValidPlayer(raw_data.d["players"].d[position].v[n])

\* The number of times x occurs in the sequence q.
Occurrences(q, x) == Cardinality({n \in 1..Len(q) : q[n] = x})

\* ranking is the ordered list of the ranked teams: an entry for each team of
\* teams, by ascending strength_score, numbered from 1.
IsRankingOf(ranking, teams) ==
    /\ ranking.k = "list"
    /\ Len(ranking.v) = Len(teams)
    /\ \A n \in 1..Len(teams) :
          Occurrences([m \in 1..Len(ranking.v) |-> ranking.v[m].raw_data], teams[n])
              = Occurrences(teams, teams[n])
    /\ \A n \in 1..Len(ranking.v) : ranking.v[n].rank = n
    /\ \A m, n \in 1..Len(ranking.v) :
          m < n => ~Less(ranking.v[n].strength_score, ranking.v[m].strength_score)

----------------------------------------------------------------------------
(* Properties of validate_dataset and clean_data *)

\* C9: in the report of validate_dataset, total_teams = valid_teams +
\* invalid_teams, total_players = valid_players + invalid_players, there is
\* one entry of validation_errors for each invalid record, and
\* validation_rate = (valid_teams + valid_players) / (total_teams +
\* total_players) * 100, which is 0 when there is no record.
C9_ReportAddsUp ==
    op = "validate_dataset" /\ res # Raised =>
        /\ res.total_teams = res.valid_teams + res.invalid_teams
        /\ res.total_players = res.valid_players + res.invalid_players
        /\ Len(res.validation_errors) = res.invalid_teams + res.invalid_players
        /\ res.validation_rate.den > 0
        /\ res.validation_rate.num * (res.total_teams + res.total_players)
              = (res.valid_teams + res.valid_players) * 100 * res.validation_rate.den
        /\ (res.total_teams + res.total_players = 0 => res.validation_rate.num = 0)

\* A report with valid and invalid teams and players.
C9_Witness ==
    /\ op = "validate_dataset"
    /\ res # Raised
    /\ res.valid_teams = 1 /\ res.invalid_teams = 1
    /\ res.valid_players = 1 /\ res.invalid_players = 1
    /\ Len(res.validation_errors) = 2

\* The dataset is a mapping whose team_defense, if present, is a list and
\* whose players, if present, maps positions to lists.
IsBatch(dataset) ==
    /\ dataset.k = "dict"
    /\ TeamDefenseOf(dataset).k = "list"
    /\ PlayersOf(dataset).k = "dict"
    /\ \A position \in DOMAIN PlayersOf(dataset).d : PlayersOf(dataset).d[position].k = "list"

\* The records of a batch that fail validation.
InvalidTeams(dataset) ==
    {n \in 1..Len(TeamDefenseOf(dataset).v) : ~IsValidTeam(TeamDefenseOf(dataset).v[n])}
InvalidPlayers(dataset) ==
    UNION { { <<position, n>> : n \in {m \in 1..Len(PlayersOf(dataset).d[position].v) :
                                          ~IsValidPlayer(PlayersOf(dataset).d[position].v[m])} } :
            position \in DOMAIN PlayersOf(dataset).d }

\* C10: whatever invalid records the lists of a dataset hold (fields missing
\* or wrongly typed, records that are no mappings), validate_dataset and
\* clean_data run to completion without raising; validate_dataset counts
\* each invalid record as invalid and clean_data drops it.
C10_InvalidRecordsNeverAbort ==
    /\ op = "validate_dataset" /\ IsBatch(arg) =>
          /\ res # Raised
          /\ res.invalid_teams = Cardinality(InvalidTeams(arg))
          /\ res.invalid_players = Cardinality(InvalidPlayers(arg))
    /\ op = "clean_data" /\ IsBatch(arg) =>
          /\ res # Raised
          /\ InvalidTeams(res) = {}
          /\ InvalidPlayers(res) = {}

----------------------------------------------------------------------------
(* Properties of clean_data *)

\* The records of a list that validate_team_stats, validate_player_stats
\* accept, in the order of the list.
RECURSIVE ValidTeamsOf(_)
ValidTeamsOf(teams) ==
    IF teams = <<>> THEN <<>>
    ELSE IF validate_team_stats(Head(teams)).ret
         THEN <<Head(teams)>> \o ValidTeamsOf(Tail(teams))
         ELSE ValidTeamsOf(Tail(teams))

RECURSIVE ValidPlayersOf(_)
ValidPlayersOf(players) ==
    IF players = <<>> THEN <<>>
    ELSE IF validate_player_stats(Head(players)).ret
         THEN <<Head(players)>> \o ValidPlayersOf(Tail(players))
         ELSE ValidPlayersOf(Tail(players))

\* C11: clean_data is idempotent: clean_data called on what clean_data
\* returned returns an equal dataset (scrape_info, team_defense and the
\* positions with their player lists) and does not raise.
C11_CleanIsIdempotent ==
    Len(done) = 2 /\ done[1].op = "clean_data" /\ done[2].op = "clean_data"
                  /\ done[2].arg = done[1].res =>
        /\ done[2].res # Raised
        /\ done[2].res = done[1].res
        /\ done[2].res.d["scrape_info"] = done[1].res.d["scrape_info"]
        /\ done[2].res.d["team_defense"] = done[1].res.d["team_defense"]
        /\ done[2].res.d["players"] = done[1].res.d["players"]

\* The first call removed a team and a player and kept a team and a player,
\* and the second call returned.
C11_Witness ==
    /\ Len(done) = 2
    /\ done[2].arg = done[1].res
    /\ TeamDefenseOf(done[1].arg) = PyList(<<TeamKC, TeamNoGames>>)
    /\ PlayersOf(done[1].arg) = PyDict([QB |-> PyList(<<PlayerQB, PlayerBadQB>>)])
    /\ done[1].res.d["team_defense"] = PyList(<<TeamKC>>)
    /\ done[1].res.d["players"] = PyDict([QB |-> PyList(<<PlayerQB>>)])
    /\ res = done[1].res

\* C12: what clean_data returns holds, as team_defense, the team records of
\* the dataset that validate_team_stats accepts, in their order; as players,
\* the position keys of the dataset's players, each with the records of that
\* position that validate_player_stats accepts, in their order (a position
\* without a valid record keeps an empty list); and as scrape_info the
\* dataset's scrape_info ({} when the dataset has none).
C12_CleanKeepsValidRecords ==
    op = "clean_data" /\ Len(done) = 1 /\ res # Raised =>
        /\ DOMAIN res.d = {"scrape_info", "team_defense", "players"}
        /\ res.d["team_defense"] = PyList(ValidTeamsOf(TeamDefenseOf(arg).v))
        /\ res.d["players"].k = "dict"
        /\ DOMAIN res.d["players"].d = DOMAIN PlayersOf(arg).d
        /\ \A position \in DOMAIN PlayersOf(arg).d :
              res.d["players"].d[position] =
                  PyList(ValidPlayersOf(PlayersOf(arg).d[position].v))
        /\ res.d["scrape_info"] = Get(arg.d, "scrape_info", EmptyObj)

\* A position whose only record is invalid is kept with an empty list, next
\* to a position that keeps one record of two, and scrape_info comes through.
C12_Witness ==
    /\ op = "clean_data"
    /\ Len(done) = 1
    /\ res # Raised
    /\ TeamDefenseOf(arg) = PyList(<<TeamKC, TeamNoGames>>)
    /\ PlayersOf(arg) = PyDict([QB |-> PyList(<<PlayerBadQB, PlayerQB>>),
                                K |-> PyList(<<PlayerNoName>>)])
    /\ res.d["team_defense"] = PyList(<<TeamKC>>)
    /\ res.d["players"] = PyDict([QB |-> PyList(<<PlayerQB>>), K |-> PyList(<<>>)])
    /\ Get(arg.d, "scrape_info", EmptyObj) = ScrapeInfo
    /\ res.d["scrape_info"] = ScrapeInfo

----------------------------------------------------------------------------
(* Properties of _rank_team_defenses *)

\* Fractions in lowest terms with a positive denominator, and their arithmetic.
Abs(n) == IF n < 0 THEN -n ELSE n
RECURSIVE GCD(_, _)
GCD(a, b) == IF b = 0 THEN a ELSE GCD(b, a % b)
Frac(n, d) ==
    LET g == GCD(Abs(n), Abs(d))
        sign == IF d < 0 THEN -1 ELSE 1
    IN [num |-> (sign * n) \div g, den |-> (sign * d) \div g]
FAdd(a, b) == Frac(a.num * b.den + b.num * a.den, a.den * b.den)
FSub(a, b) == Frac(a.num * b.den - b.num * a.den, a.den * b.den)
FMul(a, b) == Frac(a.num * b.num, a.den * b.den)
FDiv(a, b) == Frac(a.num * b.den, a.den * b.num)

\* The entries of a ranking: none when the ranking is the empty mapping or
\* the call raised.
Entries(v) == IF v.k = "list" THEN v.v ELSE <<>>
Sources(v) == [n \in 1..Len(Entries(v)) |-> Entries(v)[n].raw_data]

\* A total of a record, 0 when the record lacks it, and the total per game.
Total(record, f) == Get(record.d, f, PyInt(0)).i
PerGame(record, f) == Frac(Total(record, f), record.d["games_played"].i)

\* points_per_game * 0.4 + (yards_per_game / 100) * 0.3
\*   - turnovers_per_game * 5 * 0.2 - sacks_per_game * 2 * 0.1
StatedScore(record) ==
    FSub(FSub(FAdd(FMul(PerGame(record, "points_allowed"), Frac(4, 10)),
                   FMul(FDiv(PerGame(record, "total_yards_allowed"), Frac(100, 1)),
                        Frac(3, 10))),
              FMul(FMul(PerGame(record, "turnovers_forced"), Frac(5, 1)), Frac(2, 10))),
         FMul(FMul(PerGame(record, "sacks"), Frac(2, 1)), Frac(1, 10)))

ScoreFields == {"games_played", "points_allowed", "total_yards_allowed", "sacks",
                "turnovers_forced"}
SameScoreFields(a, b) == \A f \in ScoreFields : Field(a, f) = Field(b, f)

\* C13: the strength_score of every ranked record with games_played >= 1 is
\* the value of the stated formula on the record's totals per game, an absent
\* total counting 0, and two records that agree on games_played and the four
\* totals have the same score.
C13_ScoreIsStatedFormula ==
    op = "_rank_team_defenses" =>
        \A n \in 1..Len(Entries(res)) :
            LET e == Entries(res)[n] IN
            e.games_played.i >= 1 =>
                /\ Same(e.points_per_game_allowed, PerGame(e.raw_data, "points_allowed"))
                /\ Same(e.yards_per_game_allowed, PerGame(e.raw_data, "total_yards_allowed"))
                /\ Same(e.sacks_per_game, PerGame(e.raw_data, "sacks"))
                /\ Same(e.turnovers_per_game, PerGame(e.raw_data, "turnovers_forced"))
                /\ Same(e.strength_score, StatedScore(e.raw_data))
                /\ \A m \in 1..Len(Entries(res)) :
                       SameScoreFields(e.raw_data, Entries(res)[m].raw_data) =>
                           Entries(res)[m].strength_score = e.strength_score

\* A team without yards and turnovers is ranked next to two teams of other
\* names and the same totals.
C13_Witness ==
    /\ op = "_rank_team_defenses"
    /\ arg = PyList(<<TeamBUF, TeamKC, TeamSF>>)
    /\ Len(Entries(res)) = 3
    /\ \E n \in 1..3 : /\ Entries(res)[n].raw_data = TeamBUF
                       /\ Same(Entries(res)[n].strength_score, Frac(6375, 1000))

\* f is within tol thousandths of milli thousandths.
Near(f, milli, tol) == Abs(f.num * 1000 - milli * f.den) <= tol * Abs(f.den)

KCRatesAsStated(e) ==
    /\ Near(e.points_per_game_allowed, 17647, 1)
    /\ Near(e.yards_per_game_allowed, 305880, 10)

\* C14 as stated: the record of KC (17 games, 300 points, 5200 yards, 45
\* sacks, 22 turnovers) is valid, and the ranking gives it about 17.647 points
\* and 305.88 yards per game and a strength_score of about -23.02.
C14_KansasCityScoresMinus23 ==
    /\ op = "validate_team_stats" /\ arg = TeamKC => res = TRUE
    /\ op = "_rank_team_defenses" =>
          \A n \in 1..Len(Entries(res)) :
              Entries(res)[n].raw_data = TeamKC =>
                  /\ KCRatesAsStated(Entries(res)[n])
                  /\ Near(Entries(res)[n].strength_score, -23020, 10)

\* C14 amended: the record of KC is valid, and the ranking gives it about
\* 17.647 points and 305.88 yards per game and a strength_score of about
\* 6.15: the turnovers and the sacks enter per game, as the formula says.
C14_KansasCityScoresSix ==
    /\ op = "validate_team_stats" /\ arg = TeamKC => res = TRUE
    /\ op = "_rank_team_defenses" =>
          \A n \in 1..Len(Entries(res)) :
              Entries(res)[n].raw_data = TeamKC =>
                  /\ KCRatesAsStated(Entries(res)[n])
                  /\ Near(Entries(res)[n].strength_score, 6153, 10)

\* The record of KC is ranked by itself.
C14_Witness ==
    /\ op = "_rank_team_defenses"
    /\ arg = PyList(<<TeamKC>>)
    /\ Len(Entries(res)) = 1
    /\ Entries(res)[1].raw_data = TeamKC
    /\ Near(Entries(res)[1].strength_score, 6153, 10)

\* C15: the ranks of a ranking of N >= 1 teams are the values 1..N, each used
\* once, and the percentile of a team is (N - rank + 1) / N * 100: 100 at
\* rank 1 and 100 / N at rank N.
C15_RanksArePermutation ==
    op = "_rank_team_defenses" /\ Len(Entries(res)) >= 1 =>
        LET N == Len(Entries(res)) IN
        /\ {Entries(res)[n].rank : n \in 1..N} = 1..N
        /\ \A n \in 1..N :
              LET e == Entries(res)[n] IN
              /\ Same(e.percentile, FMul(Frac(N - e.rank + 1, N), Frac(100, 1)))
              /\ e.rank = 1 => Same(e.percentile, Frac(100, 1))
              /\ e.rank = N => Same(e.percentile, Frac(100, N))

\* Three teams are ranked, the last with percentile 100 / 3.
C15_Witness ==
    /\ op = "_rank_team_defenses"
    /\ arg = PyList(<<TeamBUF, TeamNegGames, TeamKC>>)
    /\ Len(Entries(res)) = 3
    /\ \E n \in 1..3 : /\ Entries(res)[n].rank = 3
                       /\ Entries(res)[n].raw_data = TeamBUF
                       /\ Same(Entries(res)[n].percentile, Frac(100, 3))

\* The source records of the entries that tie with e, in the order of their
\* ranks, and the records of the input ranked with that score, in the order
\* of the input.
TiedByRank(e) ==
    LET tied == SelectSeq(Entries(res), LAMBDA x : Same(x.strength_score, e.strength_score))
    IN [n \in 1..Len(tied) |-> tied[n].raw_data]
TiedByInput(e) ==
    SelectSeq(arg.v,
              LAMBDA r : \E n \in 1..Len(Entries(res)) :
                            /\ Entries(res)[n].raw_data = r
                            /\ Same(Entries(res)[n].strength_score, e.strength_score))

\* C16: the ranking is in ascending order of strength_score: a team of a
\* smaller rank has no greater score, and teams of equal score are ranked in
\* the order in which they appear in the input.
C16_AscendingAndStable ==
    op = "_rank_team_defenses" /\ Len(Entries(res)) >= 1 =>
        /\ \A m, n \in 1..Len(Entries(res)) :
              Entries(res)[m].rank < Entries(res)[n].rank =>
                  ~Less(Entries(res)[n].strength_score, Entries(res)[m].strength_score)
        /\ \A n \in 1..Len(Entries(res)) : Entries(res)[n].rank = n
        /\ \A n \in 1..Len(Entries(res)) : TiedByRank(Entries(res)[n]) = TiedByInput(Entries(res)[n])

\* SF precedes KC of the same score in the input and in the ranking, and
\* BUF between them in the input is ranked last.
C16_Witness ==
    /\ op = "_rank_team_defenses"
    /\ arg = PyList(<<TeamSF, TeamBUF, TeamKC>>)
    /\ Sources(res) = <<TeamSF, TeamKC, TeamBUF>>
    /\ Entries(res)[1].strength_score = Entries(res)[2].strength_score

\* The record's games_played is 0 or absent.
ZeroOrAbsentGames(record) ==
    record.k = "dict" /\ Field(record, "games_played") \in {Absent, PyInt(0)}
Kept(teams) == SelectSeq(teams, LAMBDA r : ~ZeroOrAbsentGames(r))

\* C17: a record whose games_played is 0 or absent is skipped without raising
\* and has no entry in the ranking; when the ranking returns, every other
\* record of the input has exactly one entry, and the count N of the ranks
\* and percentiles is the number of the records not skipped.
C17_ZeroGamesSkipped ==
    op = "_rank_team_defenses" /\ arg.k = "list" =>
        /\ res = Raised => \E n \in 1..Len(arg.v) : ~ZeroOrAbsentGames(arg.v[n])
        /\ res # Raised =>
              /\ Len(Entries(res)) = Len(Kept(arg.v))
              /\ \A n \in 1..Len(arg.v) :
                    Occurrences(Sources(res), arg.v[n]) = Occurrences(Kept(arg.v), arg.v[n])
              /\ \A n \in 1..Len(Entries(res)) :
                    /\ Entries(res)[n].rank \in 1..Len(Kept(arg.v))
                    /\ Same(Entries(res)[n].percentile,
                            Frac((Len(Kept(arg.v)) - Entries(res)[n].rank + 1) * 100,
                                 Len(Kept(arg.v))))

\* Of three records, the one without games and the one without keys are
\* skipped: the third is ranked first of one.
C17_Witness ==
    /\ op = "_rank_team_defenses"
    /\ arg = PyList(<<TeamNoGames, TeamKC, TeamNoKeys>>)
    /\ Sources(res) = <<TeamKC>>
    /\ Entries(res)[1].rank = 1
    /\ Same(Entries(res)[1].percentile, Frac(100, 1))

\* Every record of raw_data's team_defense is a mapping with an integer
\* games_played.
IntegerGames(raw_data) ==
    /\ raw_data.k = "dict"
    /\ TeamDefenseOf(raw_data).k = "list"
    /\ \A n \in 1..Len(TeamDefenseOf(raw_data).v) :
          IsInt(Field(TeamDefenseOf(raw_data).v[n], "games_played"))

\* C18: for team records with an integer games_played, the ranking that
\* transform_data invokes computes every per-game metric from a record with
\* games_played >= 1: no entry has games_played < 1, and the ranking fails
\* on no division by zero (it fails only on a record without a name).
C18_RankedGamesAtLeastOne ==
    op = "transform_data" /\ IntegerGames(arg) =>
        /\ RankingFails(arg) =>
              \E n \in 1..Len(TeamDefenseOf(arg).v) :
                  Field(TeamDefenseOf(arg).v[n], "team") = Absent
        /\ IsTransformedResult(res) =>
              \A n \in 1..Len(Entries(res.d["team_defense_rankings"])) :
                  Entries(res.d["team_defense_rankings"])[n].games_played.i >= 1

\* What clean_data returned holds only records of the dataset.
CleanedFromInput ==
    op = "clean_data" /\ res # Raised =>
        /\ \A n \in 1..Len(res.d["team_defense"].v) :
              \E m \in 1..Len(TeamDefenseOf(arg).v) :
                  res.d["team_defense"].v[n] = TeamDefenseOf(arg).v[m]
        /\ \A position \in DOMAIN res.d["players"].d :
              \A n \in 1..Len(res.d["players"].d[position].v) :
                  \E m \in 1..Len(PlayersOf(arg).d[position].v) :
                      res.d["players"].d[position].v[n] = PlayersOf(arg).d[position].v[m]

\* Every entry of the ranking holds rank, percentile and strength_score and,
\* as raw_data, a record of the input as it was passed.
SourcesRetained ==
    op = "_rank_team_defenses" =>
        \A n \in 1..Len(Entries(res)) :
            /\ {"rank", "percentile", "strength_score", "raw_data"} \subseteq
                   DOMAIN Entries(res)[n]
            /\ \E m \in 1..Len(arg.v) : Entries(res)[n].raw_data = arg.v[m]

\* C19: no operation modifies its input: the argument of validate_team_stats,
\* validate_player_stats, validate_dataset, clean_data and _rank_team_defenses
\* is after the call what it was before, clean_data returns records of the
\* dataset, and every entry of the ranking holds the scores and refers to a
\* record of the input under raw_data.
C19_InputsUnmodified ==
    [][arg' = arg /\ CleanedFromInput' /\ SourcesRetained']_vars

\* Two teams are ranked and the input is the list that was passed.
C19_Witness ==
    /\ op = "_rank_team_defenses"
    /\ Len(done) = 1
    /\ done[1].arg = PyList(<<TeamBUF, TeamKC>>)
    /\ arg = done[1].arg
    /\ Sources(res) = <<TeamKC, TeamBUF>>

----------------------------------------------------------------------------
(* Properties of a sequence of calls *)

====
